---- MODULE Spec2Model ----
(***************************************************************************)
(* A model of the bible_search pipelines: ingestion into the Neo4j graph   *)
(* (insert.py, graph.py), the FAISS index build and load (faiss_index.py)  *)
(* and the query join (search.py).                                         *)
(***************************************************************************)
EXTENDS Integers, Sequences, FiniteSets, TLC

\* ------------------------------------------------------------- bounds
\* Highest node id the graph store hands out in the model.
MaxId == 3
\* Longest JSON list given to one insert_bible_data call.
MaxRecords == 2

\* config.DEFAULT_SEARCH_RESULTS
DEFAULT_SEARCH_RESULTS == 5

\* ------------------------------------------------------- Python values
\* A JSON value as Python sees it: None, an int or a str.
PyNone == [tag |-> "none", n |-> 0, s |-> ""]
PyInt(i) == [tag |-> "int", n |-> i, s |-> ""]
PyStr(t) == [tag |-> "str", n |-> 0, s |-> t]

\* Python truthiness, as all([...]) applies it: None, 0 and "" are falsy.
Truthy(v) ==
    CASE v.tag = "none" -> FALSE
      [] v.tag = "int" -> v.n # 0
      [] OTHER -> v.s # ""

\* int(s) for a str: the decimal it spells, or ValueError.
ParseInt(s) ==
    CASE s = "1" -> [ok |-> TRUE, n |-> 1]
      [] s = "2" -> [ok |-> TRUE, n |-> 2]
      [] s = "-1" -> [ok |-> TRUE, n |-> -1]
      [] OTHER -> [ok |-> FALSE, n |-> 0]

\* int(v): ok = FALSE stands for the raised ValueError/TypeError.
PyIntOf(v) ==
    CASE v.tag = "int" -> [ok |-> TRUE, n |-> v.n]
      [] v.tag = "str" -> ParseInt(v.s)
      [] OTHER -> [ok |-> FALSE, n |-> 0]

\* One element of the JSON list; .get() of an absent key is None.
VerseData(b, c, v, t) == [book |-> b, chapter |-> c, verse |-> v, text |-> t]

\* Records every field of which is as the ingestion interface requires.
GoodRecords ==
    {VerseData(PyStr("Gen"), PyInt(1), PyInt(v), PyStr(t)) :
        v \in {1, 2}, t \in {"a", "b"}}

\* Gen 1:1 "a" with one field replaced by a malformed value.
BadRecords ==
    {VerseData(PyNone, PyInt(1), PyInt(1), PyStr("a"))}
    \cup {VerseData(PyStr("Gen"), c, PyInt(1), PyStr("a")) :
            c \in {PyNone, PyInt(0), PyInt(-1), PyStr("x")}}
    \cup {VerseData(PyStr("Gen"), PyInt(1), v, PyStr("a")) :
            v \in {PyInt(0), PyInt(-1)}}
    \cup {VerseData(PyStr("Gen"), PyInt(1), PyInt(1), t) :
            t \in {PyNone, PyStr("")}}

Records == GoodRecords \cup BadRecords

\* ------------------------------------------------------------ the graph
VARIABLES
    db,        \* the Neo4j graph: nodes by label, and the two relationships
    nextId,    \* the id the store gives the next node it creates
    driver,    \* graph._driver: "none", "verified" or "unverified"
    indexFile, \* the file at config.FAISS_INDEX_PATH
    fileStale, \* history: clear_all_data ran since indexFile was written
    loaded,    \* the (index, model) pair the search shell holds
    ins,       \* insert_bible_data's for loop: running, and records left
    ret        \* what the last call was given and what it returned

vars == <<db, nextId, driver, indexFile, fileStale, loaded, ins, ret>>

EmptyDb ==
    [books |-> {}, chapters |-> {}, verses |-> {},
     hasChapter |-> {}, hasVerse |-> {}]

\* MERGE (b:Book {name: $book_name})
MergeBook(st, p) ==
    IF \E b \in st.db.books : b.name = p.book_name
    THEN st
    ELSE [st EXCEPT !.db.books = @ \cup {[id |-> st.nextId, name |-> p.book_name]},
                    !.nextId = @ + 1]

\* MERGE (c:Chapter {number: $chapter_num, bookName: $book_name})
MergeChapter(st, p) ==
    IF \E c \in st.db.chapters :
          c.number = p.chapter_num /\ c.bookName = p.book_name
    THEN st
    ELSE [st EXCEPT !.db.chapters = @ \cup
                        {[id |-> st.nextId, number |-> p.chapter_num,
                          bookName |-> p.book_name]},
                    !.nextId = @ + 1]

VerseMatches(v, p) ==
    /\ v.number = p.verse_num
    /\ v.chapterNumber = p.chapter_num
    /\ v.bookName = p.book_name

\* MERGE (v:Verse {...}) with CREATE instead: a node per call.
CreateVerseAlways(st, p) ==
    [st EXCEPT !.db.verses = @ \cup
                   {[id |-> st.nextId, number |-> p.verse_num,
                     chapterNumber |-> p.chapter_num,
                     bookName |-> p.book_name, text |-> p.text]},
               !.nextId = @ + 1]

\* MERGE (v:Verse {number, chapterNumber, bookName})
\* ON CREATE SET v.text = $text  ON MATCH SET v.text = $text
MergeVerse(st, p) ==
    IF \E v \in st.db.verses : VerseMatches(v, p)
    THEN [st EXCEPT !.db.verses =
              {IF VerseMatches(v, p) THEN [v EXCEPT !.text = p.text] ELSE v :
                  v \in @}]
    ELSE [st EXCEPT !.db.verses = @ \cup
                        {[id |-> st.nextId, number |-> p.verse_num,
                          chapterNumber |-> p.chapter_num,
                          bookName |-> p.book_name, text |-> p.text]},
                    !.nextId = @ + 1]

\* MERGE (b)-[:HAS_CHAPTER]->(c)  MERGE (c)-[:HAS_VERSE]->(v)
MergeRels(st, p) ==
    LET bs == {b \in st.db.books : b.name = p.book_name}
        cs == {c \in st.db.chapters :
                  c.number = p.chapter_num /\ c.bookName = p.book_name}
        vs == {v \in st.db.verses : VerseMatches(v, p)}
    IN [st EXCEPT !.db.hasChapter = @ \cup {<<b.id, c.id>> : b \in bs, c \in cs},
                  !.db.hasVerse = @ \cup {<<c.id, v.id>> : c \in cs, v \in vs}]

\* The whole Cypher statement of insert_bible_data, one auto-commit transaction.
UpsertQuery(st, p) ==
    MergeRels(MergeVerse(MergeChapter(MergeBook(st, p), p), p), p)

\* What the last call was given and what it returned; a field a call does not
\* use keeps its value here.
NoRet ==
    [op |-> "none", flag |-> FALSE, raised |-> FALSE, outcome |-> "",
     unread |-> 0, book |-> "", chapter |-> 0, verse |-> 0, text |-> "",
     replaced |-> "", query |-> "", k |-> 0,
     hasIndex |-> FALSE, hasModel |-> FALSE, up |-> FALSE,
     results |-> <<>>, detailed |-> <<>>]

\* get_driver(): whether it raises, and graph._driver after the call.
GetDriver(drv, up) ==
    IF drv # "none"
    THEN [raised |-> FALSE, driver |-> drv]
    ELSE IF up
         THEN [raised |-> FALSE, driver |-> "verified"]
         ELSE [raised |-> TRUE, driver |-> "unverified"]

Init ==
    /\ db = EmptyDb
    /\ nextId = 0
    /\ driver = "none"
    /\ indexFile = [state |-> "absent", entries |-> <<>>]
    /\ fileStale = FALSE
    /\ loaded = [index |-> FALSE, entries |-> <<>>, stale |-> FALSE]
    /\ ins = [active |-> FALSE, remaining |-> 0]
    /\ ret = NoRet

Idle == ~ins.active

\* The for loop with left elements to go: it ends when none is left.
LoopAt(left) == [active |-> left > 0, remaining |-> left]

\* insert_bible_data up to its for loop: the file is read (n records) and the
\* driver fetched. readable = FALSE is a file that cannot be opened or decoded,
\* up = FALSE a Neo4j server that cannot be reached.
InsertBegin(n, readable, up) ==
    /\ Idle
    /\ IF ~readable
       THEN /\ ret' = [NoRet EXCEPT !.op = "insert", !.outcome = "unreadable"]
            /\ UNCHANGED <<db, nextId, driver, indexFile, fileStale, loaded, ins>>
       ELSE LET g == GetDriver(driver, up)
            IN /\ driver' = g.driver
               /\ ins' = LoopAt(IF g.raised THEN 0 ELSE n)
               /\ ret' = [NoRet EXCEPT !.op = "insert", !.raised = g.raised,
                                       !.outcome = IF g.raised THEN "no_driver"
                                                   ELSE "begun",
                                       !.unread = n]
               /\ UNCHANGED <<db, nextId, indexFile, fileStale, loaded>>

\* The text the Verse of these parameters holds, "" when there is none.
TextOf(d, p) ==
    IF \E v \in d.verses : VerseMatches(v, p)
    THEN (CHOOSE v \in d.verses : VerseMatches(v, p)).text
    ELSE ""

\* One pass of the for loop over verse_data, the next element of the list;
\* after the last one insert_bible_data returns. int() raising is outside the
\* loop's try: it ends insert_bible_data at once.
InsertRecord(verse_data, up) ==
    /\ ins.active
    /\ ins.remaining > 0
    /\ LET left == ins.remaining - 1
           r == [NoRet EXCEPT !.op = "insert", !.unread = left]
       IN IF ~(Truthy(verse_data.book) /\ Truthy(verse_data.chapter)
               /\ Truthy(verse_data.verse) /\ Truthy(verse_data.text))
          THEN /\ ins' = LoopAt(left)
               /\ ret' = [r EXCEPT !.outcome = "skipped"]
               /\ UNCHANGED <<db, nextId>>
          ELSE LET c == PyIntOf(verse_data.chapter)
                   v == PyIntOf(verse_data.verse)
                   p == [book_name |-> verse_data.book.s,
                         chapter_num |-> c.n, verse_num |-> v.n,
                         text |-> verse_data.text.s]
               IN IF ~c.ok \/ ~v.ok
                  THEN /\ ins' = [active |-> FALSE, remaining |-> 0]
                       /\ ret' = [r EXCEPT !.outcome = "raised",
                                           !.raised = TRUE]
                       /\ UNCHANGED <<db, nextId>>
                  ELSE IF ~up
                       THEN /\ ins' = LoopAt(left)
                            /\ ret' = [r EXCEPT !.outcome = "failed"]
                            /\ UNCHANGED <<db, nextId>>
                       ELSE LET st == UpsertQuery([db |-> db, nextId |-> nextId], p)
                            IN /\ st.nextId <= MaxId + 1
                               /\ db' = st.db
                               /\ nextId' = st.nextId
                               /\ ins' = LoopAt(left)
                               /\ ret' = [r EXCEPT !.outcome = "inserted",
                                                   !.book = p.book_name,
                                                   !.chapter = p.chapter_num,
                                                   !.verse = p.verse_num,
                                                   !.text = p.text,
                                                   !.replaced = TextOf(db, p)]
    /\ UNCHANGED <<driver, indexFile, fileStale, loaded>>

\* str.lower() of what the operator types at the prompt.
Lower(s) ==
    CASE s = "YES" -> "yes"
      [] s = "Yes" -> "yes"
      [] OTHER -> s

\* run_query(query): get_driver() is called outside its try, so a failure to
\* connect propagates; a failure of the query itself is logged and [] returned.
RunQuery(drv, up) ==
    LET g == GetDriver(drv, up)
    IN [raised |-> g.raised, driver |-> g.driver, executed |-> ~g.raised /\ up]

\* clear_all_data(); reuse = TRUE is a store that hands the freed node ids
\* out again, FALSE one that goes on from its high-water mark.
ClearAllData(confirmation, up, reuse) ==
    /\ Idle
    /\ IF Lower(confirmation) # "yes"
       THEN /\ ret' = [NoRet EXCEPT !.op = "clear", !.outcome = "cancelled"]
            /\ UNCHANGED <<db, nextId, driver, fileStale, loaded>>
       ELSE LET q == RunQuery(driver, up)
            IN /\ driver' = q.driver
               /\ db' = IF q.executed THEN EmptyDb ELSE db
               /\ nextId' = IF q.executed /\ reuse THEN 0 ELSE nextId
               /\ fileStale' = IF q.executed
                                THEN indexFile.state = "valid"
                                ELSE fileStale
               /\ loaded' = IF q.executed
                             THEN [loaded EXCEPT !.stale = loaded.index]
                             ELSE loaded
               /\ ret' = [NoRet EXCEPT !.op = "clear",
                                       !.outcome = IF q.executed THEN "deleted"
                                                   ELSE "not_executed",
                                       !.raised = q.raised,
                                       !.flag = ~q.raised]
    /\ UNCHANGED <<indexFile, ins>>

\* A call of get_driver() by itself: the driver it returns, or the exception
\* it raises, and what it leaves in _driver.
GetDriverCall(up) ==
    /\ Idle
    /\ LET g == GetDriver(driver, up)
       IN /\ driver' = g.driver
          /\ ret' = [NoRet EXCEPT !.op = "get_driver", !.raised = g.raised,
                                  !.up = up]
    /\ UNCHANGED <<db, nextId, indexFile, fileStale, loaded, ins>>

\* close_driver(), registered with atexit.
CloseDriver ==
    /\ Idle
    /\ driver' = "none"
    /\ ret' = [NoRet EXCEPT !.op = "close"]
    /\ UNCHANGED <<db, nextId, indexFile, fileStale, loaded, ins>>

\* ------------------------------------------------------ the index
\* SentenceTransformer.encode of one text, as a one-dimensional vector.
Embed(t) ==
    CASE t = "a" -> 1
      [] t = "b" -> 3
      [] t = "q" -> 2
      [] OTHER -> 0

\* The squared L2 distance of IndexFlatL2.
L2(x, y) == (x - y) * (x - y)

\* MATCH (n) RETURN id(n): every node, whatever its label.
AllNodeRows(d) ==
    {[node_id |-> b.id, text |-> b.name] : b \in d.books}
    \cup {[node_id |-> c.id, text |-> c.bookName] : c \in d.chapters}
    \cup {[node_id |-> v.id, text |-> v.text] : v \in d.verses}

\* MATCH (v:Verse) RETURN id(v) AS node_id, v.text AS text
VerseRows(d) == {[node_id |-> v.id, text |-> v.text] : v \in d.verses}

\* The rows of a result as the list the driver yields, in node id order.
RowList(rows) ==
    [r \in 1..Cardinality(rows) |->
        CHOOSE x \in rows :
            Cardinality({y \in rows : y.node_id < x.node_id}) = r - 1]

\* get_all_verses_for_indexing(): [] also when the query could not run.
GetAllVersesForIndexing(d, drv, up) ==
    LET q == RunQuery(drv, up)
    IN [driver |-> q.driver,
        verses |-> IF q.executed THEN RowList(VerseRows(d)) ELSE <<>>]

\* batch_size = 128 of the model.encode call.
BATCH_SIZE == 128

\* The batch sizes of the encoding step: the one of the call, and 1, which
\* splits the few verses held here into more than one batch.
BatchSizes == {1, BATCH_SIZE}

\* model.encode(texts, batch_size): the texts are embedded one batch of at
\* most batch_size at a time and the batches' rows are concatenated.
RECURSIVE Encode(_, _)
Encode(texts, batch_size) ==
    IF texts = <<>>
    THEN <<>>
    ELSE LET n == IF batch_size < Len(texts) THEN batch_size ELSE Len(texts)
         IN [i \in 1..n |-> Embed(texts[i])]
            \o Encode(SubSeq(texts, n + 1, Len(texts)), batch_size)

\* An index whose rows are numbered within their batch, not within texts.
IndexEntriesPerBatch(verses_data, batch_size) ==
    LET texts == [i \in 1..Len(verses_data) |-> verses_data[i].text]
        embeddings == Encode(texts, batch_size)
    IN [i \in 1..Len(verses_data) |->
           [id |-> verses_data[i].node_id,
            vec |-> embeddings[((i - 1) % batch_size) + 1]]]

\* node_ids, texts = zip(*verses_data), model.encode(texts) and
\* add_with_ids(embeddings, node_ids): one entry per verse, row i of the
\* embeddings under node_ids[i].
IndexEntries(verses_data, batch_size) ==
    LET texts == [i \in 1..Len(verses_data) |-> verses_data[i].text]
        embeddings == Encode(texts, batch_size)
    IN [i \in 1..Len(verses_data) |->
           [id |-> verses_data[i].node_id, vec |-> embeddings[i]]]

\* build_and_save_index() that goes on with an empty verses_data.
BuildStepsAlways(verses_data, fault, batch_size) ==
    IF fault \in {"model", "build", "unopened"}
    THEN [flag |-> FALSE, written |-> FALSE, file |-> <<>>, state |-> ""]
    ELSE IF fault = "partial"
         THEN [flag |-> FALSE, written |-> TRUE, file |-> <<>>,
               state |-> "corrupt"]
         ELSE [flag |-> TRUE, written |-> TRUE,
               file |-> IndexEntries(verses_data, batch_size),
               state |-> "valid"]

\* The steps of build_and_save_index() after the fetch: what it returns and
\* what it leaves at FAISS_INDEX_PATH. fault is the step that raises: "none",
\* "model" (loading the model or encoding), "build" (constructing the index),
\* "unopened" (write_index could not open the file) or "partial" (write_index
\* opened the file, which truncates it, and then failed).
BuildSteps(verses_data, fault, batch_size) ==
    IF verses_data = <<>>
    THEN [flag |-> FALSE, written |-> FALSE, file |-> <<>>, state |-> ""]
    ELSE BuildStepsAlways(verses_data, fault, batch_size)

BuildFaults == {"none", "model", "build", "unopened", "partial"}

BuildAndSaveIndex(up, fault, batch_size) ==
    /\ Idle
    /\ LET g == GetAllVersesForIndexing(db, driver, up)
           b == BuildSteps(g.verses, fault, batch_size)
       IN /\ driver' = g.driver
          /\ indexFile' = IF b.written
                          THEN [state |-> b.state, entries |-> b.file]
                          ELSE indexFile
          /\ fileStale' = IF b.written THEN FALSE ELSE fileStale
          /\ ret' = [NoRet EXCEPT !.op = "build", !.flag = b.flag,
                                  !.outcome = IF g.verses = <<>> THEN "empty"
                                              ELSE IF b.flag THEN "built"
                                              ELSE fault]
    /\ UNCHANGED <<db, nextId, loaded, ins>>

NotLoaded == [index |-> FALSE, entries |-> <<>>, stale |-> FALSE]

\* load_faiss_index() at the start of run_search_shell(): (None, None) unless
\* the file exists, read_index parses it and the model loads.
LoadFaissIndex(modelOk) ==
    /\ Idle
    /\ ~loaded.index
    /\ LET ok == indexFile.state = "valid" /\ modelOk
       IN /\ loaded' = IF ok
                       THEN [index |-> TRUE, entries |-> indexFile.entries,
                             stale |-> fileStale]
                       ELSE NotLoaded
          /\ ret' = [NoRet EXCEPT !.op = "load", !.flag = ok]
    /\ UNCHANGED <<db, nextId, driver, indexFile, fileStale, ins>>

\* ------------------------------------------------------ the query
\* index.search(query_embedding, k) of an IndexIDMap over IndexFlatL2: the k
\* nearest, nearest first, padded with id -1 when the index holds fewer.
FaissSearch(entries, qvec, k) ==
    LET n == Len(entries)
        d(i) == L2(entries[i].vec, qvec)
        before(i) == {j \in 1..n : d(j) < d(i) \/ (d(j) = d(i) /\ j < i)}
        at(r) == CHOOSE i \in 1..n : Cardinality(before(i)) = r - 1
    IN [r \in 1..k |->
           IF r <= n
           THEN [node_id |-> entries[at(r)].id, distance |-> d(at(r))]
           ELSE [node_id |-> -1, distance |-> 2147483647]]

\* The result loop without its test for -1.
KeepPadding(found) == found

RECURSIVE DropPadding(_)
\* The for loop of search_similar_verses: every entry but the -1 ones.
DropPadding(found) ==
    IF found = <<>>
    THEN <<>>
    ELSE IF Head(found).node_id # -1
         THEN <<Head(found)>> \o DropPadding(Tail(found))
         ELSE DropPadding(Tail(found))

\* search_similar_verses without its test of the query.
SearchAnyQuery(query, index, hasModel, k, encodes) ==
    IF ~index.index \/ ~hasModel \/ ~encodes
    THEN <<>>
    ELSE DropPadding(FaissSearch(index.entries, Embed(query), k))

\* search_similar_verses(query, index, model, k); encodes = FALSE is an
\* exception from model.encode or index.search.
SearchSimilarVerses(query, index, hasModel, k, encodes) ==
    IF query = ""
    THEN <<>>
    ELSE IF ~index.index \/ ~hasModel
         THEN <<>>
         ELSE IF ~encodes
              THEN <<>>
              ELSE DropPadding(FaissSearch(index.entries, Embed(query), k))

\* The rows of get_verse_by_id's query: the Verse of that id with its Chapter
\* and Book.
VerseByIdRows(d, node_id) ==
    {[book |-> b.name, chapter |-> c.number, verse |-> v.number,
      text |-> v.text] :
        <<b, c, v>> \in {t \in d.books \X d.chapters \X d.verses :
                            /\ t[3].id = node_id
                            /\ <<t[2].id, t[3].id>> \in d.hasVerse
                            /\ <<t[1].id, t[2].id>> \in d.hasChapter}}

\* get_verse_by_id(node_id): found = FALSE is its None.
GetVerseById(d, node_id, drv, up) ==
    LET q == RunQuery(drv, up)
        rows == IF q.executed THEN VerseByIdRows(d, node_id) ELSE {}
    IN [driver |-> q.driver,
        found |-> rows # {},
        row |-> IF rows # {} THEN CHOOSE x \in rows : TRUE
                ELSE [book |-> "", chapter |-> 0, verse |-> 0, text |-> ""]]

\* The join with a break where the code goes on to the next entry.
RECURSIVE JoinStopsAtMissing(_, _, _, _)
JoinStopsAtMissing(faiss_results, d, drv, up) ==
    IF faiss_results = <<>>
    THEN [driver |-> drv, detailed |-> <<>>]
    ELSE LET g == GetVerseById(d, Head(faiss_results).node_id, drv, up)
         IN IF ~g.found
            THEN [driver |-> g.driver, detailed |-> <<>>]
            ELSE LET rest == JoinStopsAtMissing(Tail(faiss_results), d,
                                                g.driver, up)
                 IN [driver |-> rest.driver,
                     detailed |->
                        <<[book |-> g.row.book, chapter |-> g.row.chapter,
                           verse |-> g.row.verse, text |-> g.row.text,
                           distance |-> Head(faiss_results).distance]>>
                        \o rest.detailed]

RECURSIVE JoinLoop(_, _, _, _)
\* The for loop of get_verse_details_from_neo4j.
JoinLoop(faiss_results, d, drv, up) ==
    IF faiss_results = <<>>
    THEN [driver |-> drv, detailed |-> <<>>]
    ELSE LET g == GetVerseById(d, Head(faiss_results).node_id, drv, up)
             rest == JoinLoop(Tail(faiss_results), d, g.driver, up)
         IN [driver |-> rest.driver,
             detailed |->
                IF g.found
                THEN <<[book |-> g.row.book, chapter |-> g.row.chapter,
                        verse |-> g.row.verse, text |-> g.row.text,
                        distance |-> Head(faiss_results).distance]>>
                     \o rest.detailed
                ELSE rest.detailed]

\* get_verse_details_from_neo4j(faiss_results)
GetVerseDetailsFromNeo4j(faiss_results, d, drv, up) ==
    JoinLoop(faiss_results, d, drv, up)

\* str.strip() of a line typed at the Search> prompt.
Strip(s) ==
    CASE s = " " -> ""
      [] s = " q" -> "q"
      [] s = "a " -> "a"
      [] OTHER -> s

\* One pass of run_search_shell's loop over the line raw.
ShellQuery(raw, up, encodes) ==
    /\ Idle
    /\ loaded.index
    /\ LET query == Strip(raw)
           r == [NoRet EXCEPT !.op = "shell", !.query = query,
                              !.k = DEFAULT_SEARCH_RESULTS,
                              !.hasIndex = TRUE, !.hasModel = TRUE]
       IN IF Lower(query) \in {"exit", "quit"}
          THEN /\ loaded' = NotLoaded
               /\ ret' = [r EXCEPT !.outcome = "exit"]
               /\ UNCHANGED driver
          ELSE IF query = ""
               THEN /\ ret' = [r EXCEPT !.outcome = "continue"]
                    /\ UNCHANGED <<loaded, driver>>
               ELSE LET faiss_results ==
                            SearchSimilarVerses(query, loaded, TRUE,
                                                DEFAULT_SEARCH_RESULTS, encodes)
                        j == GetVerseDetailsFromNeo4j(faiss_results, db,
                                                      driver, up)
                    IN /\ driver' = j.driver
                       /\ ret' = [r EXCEPT !.outcome = "searched",
                                           !.up = up,
                                           !.results = faiss_results,
                                           !.detailed = j.detailed]
                       /\ UNCHANGED loaded
    /\ UNCHANGED <<db, nextId, indexFile, fileStale, ins>>

\* A call of search_similar_verses(query, index, model, k) by any caller;
\* have says what it passes: the loaded index and model, or None for one.
SearchCall(query, have, k, encodes) ==
    /\ Idle
    /\ LET index == IF have = "no_index" THEN NotLoaded ELSE loaded
           hasModel == have # "no_model" /\ loaded.index
       IN ret' = [NoRet EXCEPT !.op = "search", !.query = query, !.k = k,
                               !.hasIndex = index.index,
                               !.hasModel = hasModel,
                               !.outcome = IF encodes THEN "returned"
                                           ELSE "exception",
                               !.results =
                                   SearchSimilarVerses(query, index, hasModel,
                                                       k, encodes)]
    /\ UNCHANGED <<db, nextId, driver, indexFile, fileStale, loaded, ins>>

\* The calls of search_similar_verses tried: <<query, have, k>>.
SearchCalls ==
    {<<"", "both", DEFAULT_SEARCH_RESULTS>>,
     <<" ", "both", DEFAULT_SEARCH_RESULTS>>,
     <<"a", "both", 1>>,
     <<"a", "both", DEFAULT_SEARCH_RESULTS>>,
     <<"a", "no_index", DEFAULT_SEARCH_RESULTS>>,
     <<"a", "no_model", DEFAULT_SEARCH_RESULTS>>}

\* The operations on the graph store alone.
StoreNext(recs, ups) ==
    \/ \E n \in 0..MaxRecords, readable \in BOOLEAN, up \in ups :
          InsertBegin(n, readable, up)
    \/ \E verse_data \in recs, up \in ups : InsertRecord(verse_data, up)
    \/ \E confirmation \in {"yes", "YES", "no"}, up \in ups,
          reuse \in BOOLEAN : ClearAllData(confirmation, up, reuse)

\* build_and_save_index() under every failure of its steps.
BuildNext(ups) ==
    \E up \in ups, fault \in BuildFaults, batch_size \in BatchSizes :
        BuildAndSaveIndex(up, fault, batch_size)

\* Loading the index and querying it.
QueryNext ==
    \/ \E modelOk \in BOOLEAN : LoadFaissIndex(modelOk)
    \/ \E raw \in {" ", "a ", " q", "exit"}, up \in BOOLEAN,
          encodes \in BOOLEAN : ShellQuery(raw, up, encodes)
    \/ \E c \in SearchCalls, encodes \in BOOLEAN :
          SearchCall(c[1], c[2], c[3], encodes)

\* Ingestion of any JSON list, clearing, and the driver's life.
NextStore ==
    \/ StoreNext(Records, BOOLEAN)
    \/ CloseDriver
    \/ \E up \in BOOLEAN : GetDriverCall(up)

SpecStore == Init /\ [][NextStore]_vars

\* The indexing pipeline over a store fed with well-formed records, the
\* server reachable or not.
NextBuild == StoreNext(GoodRecords, BOOLEAN) \/ CloseDriver \/ BuildNext(BOOLEAN)

SpecBuild == Init /\ [][NextBuild]_vars

\* Both pipelines; the server is reachable while the store is written and
\* the index built, and may be unreachable when a query is answered.
Next == StoreNext(GoodRecords, {TRUE}) \/ BuildNext({TRUE}) \/ QueryNext

Spec == Init /\ [][Next]_vars

\* ------------------------------------------------------------ claims

\* C1: right after a successful build, every identity in the index file
\* resolves through get_verse_by_id to a verse of the store.
C1_FreshIndexResolves ==
    (ret.op = "build" /\ ret.flag) =>
        \A i \in 1..Len(indexFile.entries) :
            GetVerseById(db, indexFile.entries[i].id, driver, TRUE).found

C1_Witness ==
    /\ ret.op = "build"
    /\ ret.flag
    /\ Len(indexFile.entries) = 2

\* C2: a build that fails, at whatever step, leaves a previously persisted
\* index file as it was.
C2_FailedBuildKeepsFile ==
    [][(ret'.op = "build" /\ ~ret'.flag /\ indexFile.state = "valid") =>
          indexFile' = indexFile]_vars

\* C3: an upsert leaves exactly one Verse with its composite key, holding the
\* text just written, and when the key was already stored the verse count
\* does not change.
C3_UpsertIdempotent ==
    [][(ret'.op = "insert" /\ ret'.outcome = "inserted") =>
          LET same(d) == {v \in d.verses : /\ v.bookName = ret'.book
                                           /\ v.chapterNumber = ret'.chapter
                                           /\ v.number = ret'.verse}
          IN /\ Cardinality(same(db')) = 1
             /\ \A v \in same(db') : v.text = ret'.text
             /\ same(db) # {} =>
                    Cardinality(db'.verses) = Cardinality(db.verses)]_vars

\* The second upsert of a key, with a text other than the stored one.
C3_Witness ==
    /\ ret.op = "insert"
    /\ ret.outcome = "inserted"
    /\ ret.replaced # ""
    /\ ret.replaced # ret.text

\* C4: no VerseResult comes from an index built before a clear_all_data: a
\* query answered from such an index joins nothing.
C4_NoJoinFromStaleIndex ==
    (ret.op = "shell" /\ ret.outcome = "searched" /\ loaded.stale) =>
        ret.detailed = <<>>

\* C5: once clear_all_data has been called with the store reachable, the
\* store lists no verse for indexing.
C5_ClearIsUnconditional ==
    (ret.op = "clear" /\ ret.outcome # "not_executed") =>
        RowList(VerseRows(db)) = <<>>

\* C6: a build on a store with no verse returns failure and leaves the index
\* file as it was, absent or not.
C6_EmptyStoreBuildsNothing ==
    [][(ret'.op = "build" /\ db.verses = {}) =>
          /\ ~ret'.flag
          /\ ret'.outcome = "empty"
          /\ indexFile' = indexFile]_vars

\* A failed build on an emptied store, with an index file from before.
C6_Witness ==
    /\ ret.op = "build"
    /\ ret.outcome = "empty"
    /\ db.verses = {}
    /\ indexFile.state = "valid"

\* C7: given a readable file and a driver, insert_bible_data returns only
\* after its loop has gone through every record of the list.
C7_BatchNeverAborts ==
    (/\ ret.op = "insert"
     /\ ~ins.active
     /\ ret.outcome \notin {"unreadable", "no_driver"}) => ret.unread = 0

\* C8: no Verse with a non-positive chapter or verse number is stored.
C8_OnlyPositiveNumbersStored ==
    \A v \in db.verses : v.number > 0 /\ v.chapterNumber > 0

Resolves(i) == ret.up /\ VerseByIdRows(db, ret.results[i].node_id) # {}

\* C10: the joined results are the entries of the search that resolve, in
\* the order of the search and each with its distance.
C10_JoinKeepsResolvedInOrder ==
    (ret.op = "shell" /\ ret.outcome = "searched") =>
        LET kept == {i \in 1..Len(ret.results) : Resolves(i)}
            nth(r) == CHOOSE i \in kept :
                          Cardinality({j \in kept : j < i}) = r - 1
        IN /\ Len(ret.detailed) = Cardinality(kept)
           /\ \A r \in 1..Cardinality(kept) :
                  LET e == ret.results[nth(r)]
                      v == CHOOSE x \in db.verses : x.id = e.node_id
                  IN ret.detailed[r] =
                        [book |-> v.bookName, chapter |-> v.chapterNumber,
                         verse |-> v.number, text |-> v.text,
                         distance |-> e.distance]

\* The nearest entry is dangling and skipped, the next one is returned.
C10_Witness ==
    /\ ret.op = "shell"
    /\ ret.outcome = "searched"
    /\ Len(ret.results) = 2
    /\ ~Resolves(1)
    /\ Resolves(2)
    /\ Len(ret.detailed) = 1

\* C11: a search that runs, with a positive k over an index of n entries,
\* returns min(k, n) entries, each an identity of the index and none the
\* placeholder -1, in order of non-decreasing distance.
C11_RankingLaw ==
    (/\ ret.op = "search"
     /\ ret.outcome = "returned"
     /\ ret.query # ""
     /\ ret.hasIndex
     /\ ret.hasModel
     /\ ret.k > 0) =>
        LET n == Len(loaded.entries)
            ids == {loaded.entries[i].id : i \in 1..n}
        IN /\ Len(ret.results) = IF ret.k < n THEN ret.k ELSE n
           /\ \A i \in 1..Len(ret.results) :
                  /\ ret.results[i].node_id # -1
                  /\ ret.results[i].node_id \in ids
           /\ \A i \in 1..Len(ret.results), j \in 1..Len(ret.results) :
                  i < j => ret.results[i].distance <= ret.results[j].distance

\* More asked for than the index holds, and the nearer entry is the one
\* stored second.
C11_Witness ==
    /\ ret.op = "search"
    /\ ret.outcome = "returned"
    /\ ret.k > Len(loaded.entries)
    /\ Len(ret.results) = 2
    /\ ret.results[1].node_id > ret.results[2].node_id
    /\ ret.results[1].distance < ret.results[2].distance

\* C12: after a build that returned True, the index holds one entry per verse
\* of the store, under that verse's identity and with the embedding of that
\* verse's text, and nothing else.
C12_IndexIsImageOfStore ==
    (ret.op = "build" /\ ret.flag) =>
        LET n == Len(indexFile.entries)
        IN /\ indexFile.state = "valid"
           /\ {indexFile.entries[i].id : i \in 1..n} = {v.id : v \in db.verses}
           /\ n = Cardinality(db.verses)
           /\ \A i \in 1..n : \A v \in db.verses :
                  v.id = indexFile.entries[i].id =>
                      indexFile.entries[i].vec = Embed(v.text)

\* A build over two verses whose texts, and so whose embeddings, differ.
C12_Witness ==
    /\ ret.op = "build"
    /\ ret.flag
    /\ Len(indexFile.entries) = 2
    /\ indexFile.entries[1].vec # indexFile.entries[2].vec
    /\ \E v, w \in db.verses : v.id # w.id /\ v.text # w.text

\* C13: a call of get_driver() that returns leaves a driver whose connectivity
\* was verified, and a call that raised leaves no driver cached.
C13_NoUnverifiedDriver ==
    ret.op = "get_driver" =>
        IF ret.raised THEN driver = "none" ELSE driver = "verified"

\* C14: clear_all_data() returns True only with every node of the store
\* deleted.
C14_TrueOnlyIfDeleted ==
    (ret.op = "clear" /\ ret.outcome # "cancelled" /\ ret.flag) => db = EmptyDb
====
